---- MODULE Spec2Model ----
(***************************************************************************)
(* The resilient request pipeline of anytype-go: the two retry engines     *)
(* (pkg/anytype NewRetryMiddleware, a RoundTripper, and                    *)
(* middleware.RetryMiddleware.Do, an HTTPDoer), their delay computations,  *)
(* the connectivity tracker middleware.DisconnectMiddleware, and the       *)
(* two ways of composing middleware: pkg/anytype Chain and                 *)
(* middleware.NewChain(...).Use(...).Build(), and the logging middleware   *)
(* pkg/anytype NewLoggingMiddleware.                                       *)
(*                                                                         *)
(* Durations are counted in microseconds (time.Duration counts             *)
(* nanoseconds; every duration drawn below is a whole number of            *)
(* microseconds, so nothing is lost by the change of unit).                *)
(***************************************************************************)
EXTENDS Integers, Sequences, FiniteSets, TLC

VARIABLES
  impl,        \* "RT": pkg/anytype NewRetryMiddleware, "Do": middleware.RetryMiddleware.Do
  options,     \* RetryOptions / RetryConfig of the engine
  body,        \* bytes of the caller's request body, NoBody when req.Body == nil
  reqBody,     \* the stream req.Body as the engine leaves it for the first attempt
  ctxDone,     \* req.Context().Done() is closed
  pc,          \* position of the logical call
  attempt,     \* loop variable: attempt (RT), retries (Do)
  resp,        \* local resp
  err,         \* local err
  delay,       \* duration handed to time.After by the pending wait
  outcomes,    \* history: what the wrapped transport returned, per invocation
  seen,        \* history: what the wrapped transport could read from req.Body, per invocation
  waits,       \* history: the duration of every wait started
  respClosed,  \* history: ids of the responses whose Body the engine closed
  result,      \* what the logical call returned
  cancelDuringWait,   \* history: the context was cancelled while the call was parked in select
  retriedAfterCancel, \* history: select took the timer branch although Done() was already closed
  fin,         \* input of the delay function under evaluation
  fout,        \* its result
  dcfg,        \* DisconnectConfig: which callbacks are set (non-nil)
  connected,   \* DisconnectMiddleware.connected
  mu,          \* DisconnectMiddleware.mu: the writer holding it (0: none) and its readers
  dpc,         \* position of each caller inside DisconnectMiddleware.Do
  derr,        \* the error Next.Do returned to each caller
  dresp,       \* the response Next.Do returned to each caller
  nextCalls,   \* history: number of invocations of Next.Do
  dfired,      \* history: the callback each caller's current call invoked
  cbLog,       \* history: callback invocations in order
  callLog,     \* history: completed calls in order
  isconn,      \* per goroutine inside IsConnected with the read lock: the value read
  cimpl,       \* "Chain": pkg/anytype Chain(...).Execute, "NewChain": middleware.NewChain
  cbase,       \* the base transport handed to the composition: "base", or "nil"
  cmws,        \* the middlewares registered, in registration order
  cpc,         \* position of the composition and of the request sent through it
  composed,    \* the composed transport: its layers from the outermost to the base
  cdepth,      \* the layer of composed the request or its result is at
  ctrace,      \* history: which layer saw the request or the result, in order
  lopts,       \* LoggingOptions of the logging middleware
  lorig,       \* the request as the caller handed it over: header and body stream
  lreq,        \* req as the logging middleware leaves it for next.RoundTrip
  lpc,         \* position inside the logging middleware's RoundTrip
  llog,        \* history: the emissions handed to options.Logger, in order
  lseen,       \* history: the header next.RoundTrip received and what it could read from req.Body
  lout,        \* the pair next.RoundTrip returned
  lret         \* the pair the logging middleware returned

retryVars == <<impl, options, body, reqBody, ctxDone, pc, attempt, resp, err, delay,
               outcomes, seen, waits, respClosed, result, cancelDuringWait, retriedAfterCancel>>
fnVars == <<fin, fout>>
discVars == <<dcfg, connected, mu, dpc, derr, dresp, nextCalls, dfired, cbLog, callLog, isconn>>
chainVars == <<cimpl, cbase, cmws, cpc, composed, cdepth, ctrace>>
logVars == <<lopts, lorig, lreq, lpc, llog, lseen, lout, lret>>
vars == <<retryVars, fnVars, discVars, chainVars, logVars>>

-----------------------------------------------------------------------------
(* Bounds *)

MaxRetriesBound == 2
MaxAttemptIdx == 4
MaxClock == 2
NumCallers == 2
MaxCalls == 4
MaxConcCalls == 4      \* calls through one DisconnectMiddleware that may overlap
MaxUnits == 3          \* middlewares in one composition
MaxRetryIndex == 64    \* retry indices handed to exponentialBackoff on its own

-----------------------------------------------------------------------------
(* Durations and HTTP statuses *)

Millisecond == 1000
Second == 1000000

StatusOK == 200
StatusNotFound == 404
StatusRequestTimeout == 408
StatusTooManyRequests == 429
StatusInternalServerError == 500
StatusBadGateway == 502
StatusServiceUnavailable == 503
StatusGatewayTimeout == 504

NoBody == <<"nil">>
ReadError == <<"read error">>

NoHeader == <<>>
NilResp == [status |-> 0, retryAfter |-> NoHeader, id |-> 0]
NoErr == "nil"
ConnErr == "dial tcp: connection refused"
CtxErr == "context canceled"

Min(a, b) == IF a < b THEN a ELSE b

RECURSIVE Pow(_, _)
Pow(b, e) == IF e = 0 THEN 1 ELSE b * Pow(b, e - 1)

-----------------------------------------------------------------------------
(* RetryOptions / RetryConfig *)

DefaultRetryableStatusCodes ==
  {StatusRequestTimeout, StatusTooManyRequests, StatusInternalServerError,
   StatusBadGateway, StatusServiceUnavailable, StatusGatewayTimeout}

\* A caller-chosen set: 404 added, 503 and the other 5xx removed.
CustomRetryableStatusCodes == {StatusTooManyRequests, StatusNotFound}

\* RetryBackoffFactor is a float64; the factors drawn are dyadic rationals
\* FactorNum / FactorDen, which float64 represents exactly.
DelayProfiles ==
  { [MinRetryDelay |-> 100 * Millisecond, MaxRetryDelay |-> Second,
     FactorNum |-> 2, FactorDen |-> 1, RetryJitter |-> 0],
    [MinRetryDelay |-> 0, MaxRetryDelay |-> Second,
     FactorNum |-> 2, FactorDen |-> 1, RetryJitter |-> 0],
    [MinRetryDelay |-> 200 * Millisecond, MaxRetryDelay |-> 30 * Second,
     FactorNum |-> 2, FactorDen |-> 1, RetryJitter |-> 100 * Millisecond] }

MkOptions(n, codes, d) ==
  [MaxRetries |-> n, RetryableStatusCodes |-> codes,
   MinRetryDelay |-> d.MinRetryDelay, RetryDelay |-> d.MinRetryDelay,
   MaxRetryDelay |-> d.MaxRetryDelay,
   FactorNum |-> d.FactorNum, FactorDen |-> d.FactorDen,
   RetryJitter |-> d.RetryJitter]

AllOptions ==
  { MkOptions(n, codes, d) :
      n \in -1 .. MaxRetriesBound,
      codes \in {DefaultRetryableStatusCodes, CustomRetryableStatusCodes},
      d \in DelayProfiles }

-----------------------------------------------------------------------------
(* strconv.Atoi and http.ParseTime on a header value.  A header value is a  *)
(* sequence of characters.  An HTTP-date is written "T" followed by the     *)
(* decimal second it denotes.                                               *)

Digits == {"0", "1", "2", "3", "4", "5", "6", "7", "8", "9"}

DigitVal(c) ==
  CASE c = "0" -> 0 [] c = "1" -> 1 [] c = "2" -> 2 [] c = "3" -> 3 [] c = "4" -> 4
    [] c = "5" -> 5 [] c = "6" -> 6 [] c = "7" -> 7 [] c = "8" -> 8 [] c = "9" -> 9

AllDigits(s) == Len(s) > 0 /\ \A i \in 1 .. Len(s) : s[i] \in Digits

RECURSIVE DecimalValue(_)
DecimalValue(s) ==
  IF s = <<>> THEN 0
  ELSE 10 * DecimalValue(SubSeq(s, 1, Len(s) - 1)) + DigitVal(s[Len(s)])

Atoi(s) ==
  IF s # <<>> /\ s[1] \in {"+", "-"}
  THEN IF AllDigits(Tail(s))
       THEN [ok |-> TRUE,
             val |-> IF s[1] = "-" THEN 0 - DecimalValue(Tail(s)) ELSE DecimalValue(Tail(s))]
       ELSE [ok |-> FALSE, val |-> 0]
  ELSE IF AllDigits(s)
       THEN [ok |-> TRUE, val |-> DecimalValue(s)]
       ELSE [ok |-> FALSE, val |-> 0]

ParseTime(s) ==
  IF s # <<>> /\ s[1] = "T" /\ AllDigits(Tail(s))
  THEN [ok |-> TRUE, t |-> DecimalValue(Tail(s))]
  ELSE [ok |-> FALSE, t |-> 0]

-----------------------------------------------------------------------------
(* Delay computations *)

\* RetryJitter * (math.Float64frombits(FastRand()&0x7FFFFF) / float64(0x7FFFFF)):
\* Float64frombits of a 23-bit pattern r is the subnormal r * 2^-1074, the
\* quotient is at most 2^-1074, and its product with a jitter below 2^63 is
\* below 2^-1011, which time.Duration(...) truncates to 0 for every r.
jitterOf(opts, r) == 0

calculateBackoffDelay(opts, a, r) ==
  LET ms        == opts.MinRetryDelay \div Millisecond
      backoffMs == (ms * Pow(opts.FactorNum, a)) \div Pow(opts.FactorDen, a)
      d0        == backoffMs * Millisecond
      d1        == IF d0 > opts.MaxRetryDelay THEN opts.MaxRetryDelay ELSE d0
  IN  IF opts.RetryJitter > 0 THEN d1 + jitterOf(opts, r) ELSE d1

\* variant: the server's wait clipped to MaxRetryDelay
calculateRetryAfterDelay_capped(rsp, opts, a, now, r) ==
  LET h == rsp.retryAfter
  IN  IF h # NoHeader /\ Atoi(h).ok
      THEN Min(Atoi(h).val * Second, opts.MaxRetryDelay)
      ELSE calculateBackoffDelay(opts, a, r)

calculateRetryAfterDelay(rsp, opts, a, now, r) ==
  LET h == rsp.retryAfter
  IN  IF h # NoHeader /\ Atoi(h).ok
      THEN Atoi(h).val * Second
      ELSE IF h # NoHeader /\ ParseTime(h).ok /\ (ParseTime(h).t - now) * Second > 0
           THEN (ParseTime(h).t - now) * Second
           ELSE calculateBackoffDelay(opts, a, r)

exponentialBackoff(baseDelay, retry, maxDelay) ==
  LET d == baseDelay * Pow(2, retry)
  IN  IF d > maxDelay THEN maxDelay ELSE d

-----------------------------------------------------------------------------
(* Retry predicates (ShouldRetry left nil in both engines) *)

\* variant: every response is worth another attempt
ShouldRetry_always(opts, rsp, e) == TRUE

\* pkg/anytype: the default installed by NewRetryMiddleware
ShouldRetry(opts, rsp, e) ==
  IF e # NoErr THEN TRUE
  ELSE rsp.status \in opts.RetryableStatusCodes

\* middleware: defaultShouldRetry, reached through RetryMiddleware.shouldRetry
defaultShouldRetry(rsp, e) ==
  IF e # NoErr THEN TRUE
  ELSE IF rsp # NilResp
       THEN rsp.status \in {StatusRequestTimeout, StatusTooManyRequests,
                            StatusInternalServerError, StatusBadGateway,
                            StatusServiceUnavailable, StatusGatewayTimeout}
       ELSE FALSE

shouldRetry(opts, rsp, e) == defaultShouldRetry(rsp, e)

-----------------------------------------------------------------------------
(* Request bodies and the wrapped transport *)

Bodies == {NoBody, <<"a", "b">>}

NoStream == [data |-> NoBody, pos |-> 0, closed |-> FALSE]
Fresh(b) == [data |-> b, pos |-> 0, closed |-> FALSE]   \* io.NopCloser(bytes.NewReader(b))
Drained(b) == [data |-> b, pos |-> Len(b), closed |-> TRUE]  \* after io.ReadAll and Close

\* What a reader of the stream obtains.  Reading a stream after Close is
\* outside the io.ReadCloser contract: the reader gets the bytes that are
\* left (none after ReadAll) or an error, depending on the body's type.
ReadObservations(s) ==
  IF s = NoStream THEN {NoBody}
  ELSE IF s.closed THEN {SubSeq(s.data, s.pos + 1, Len(s.data)), ReadError}
       ELSE {SubSeq(s.data, s.pos + 1, Len(s.data))}

RetryAfterHeaders == {NoHeader, <<"0">>, <<"2">>}

RandBits == {0, 8388607}

MkResp(s, h, i) == [status |-> s, retryAfter |-> h, id |-> i]

\* Every result the wrapped transport can give for invocation number i.
TransportOutcomes(i, cancelled) ==
  { [resp |-> MkResp(s, NoHeader, i), err |-> NoErr] :
      s \in {StatusOK, StatusNotFound, StatusServiceUnavailable} }
  \cup { [resp |-> MkResp(StatusTooManyRequests, h, i), err |-> NoErr] : h \in RetryAfterHeaders }
  \cup { [resp |-> MkResp(StatusServiceUnavailable, <<"2">>, i), err |-> NoErr] }
  \cup { [resp |-> NilResp, err |-> ConnErr] }
  \cup (IF cancelled THEN { [resp |-> NilResp, err |-> CtxErr] } ELSE {})

NotReturned == [resp |-> NilResp, err |-> "pending"]

-----------------------------------------------------------------------------
(* The logical call *)

RetryInit ==
  /\ impl \in {"RT", "Do"}
  /\ options \in AllOptions
  /\ body \in Bodies
  /\ reqBody = IF body = NoBody THEN NoStream ELSE Fresh(body)
  /\ ctxDone = FALSE
  /\ pc = "init"
  /\ attempt = 0
  /\ resp = NilResp
  /\ err = NoErr
  /\ delay = 0
  /\ outcomes = <<>>
  /\ seen = <<>>
  /\ waits = <<>>
  /\ respClosed = {}
  /\ result = NotReturned
  /\ cancelDuringWait = FALSE
  /\ retriedAfterCancel = FALSE

RetryIdle ==
  /\ impl = "RT"
  /\ options = MkOptions(0, DefaultRetryableStatusCodes,
                         [MinRetryDelay |-> 0, MaxRetryDelay |-> 0,
                          FactorNum |-> 1, FactorDen |-> 1, RetryJitter |-> 0])
  /\ body = NoBody
  /\ reqBody = NoStream
  /\ ctxDone = FALSE
  /\ pc = "off"
  /\ attempt = 0
  /\ resp = NilResp
  /\ err = NoErr
  /\ delay = 0
  /\ outcomes = <<>>
  /\ seen = <<>>
  /\ waits = <<>>
  /\ respClosed = {}
  /\ result = NotReturned
  /\ cancelDuringWait = FALSE
  /\ retriedAfterCancel = FALSE

Return(rsp, e) ==
  /\ pc' = "done"
  /\ result' = [resp |-> rsp, err |-> e]

\* pkg/anytype: the body the wrapped transport finds in req.Body on attempt a
RTAttemptStream(b, rb, a) ==
  IF a > 0 /\ b # NoBody THEN Fresh(b) ELSE rb

\* pkg/anytype: "Success or non-retryable error, return immediately"
RTReturnsNow(opts, rsp, e) ==
  e # NoErr \/ ~ShouldRetry(opts, rsp, e)

\* variant: the budget counted one attempt short
RTExhausted_early(opts, a) == a + 1 >= opts.MaxRetries

\* pkg/anytype: "Check if we've reached the max retries"
RTExhausted(opts, a) == a = opts.MaxRetries

\* variant: Retry-After honoured whatever the status
RTRetryAfter_anyStatus(opts, rsp, a, now, r) ==
  calculateRetryAfterDelay(rsp, opts, a, now, r)

\* variant: the delay computed for the index of the coming attempt
RTRetryAfter_next(opts, rsp, a, now, r) ==
  IF rsp.status = StatusTooManyRequests
  THEN calculateRetryAfterDelay(rsp, opts, a + 1, now, r)
  ELSE calculateBackoffDelay(opts, a + 1, r)

\* pkg/anytype: the duration of the wait that follows attempt a
RTRetryAfter(opts, rsp, a, now, r) ==
  IF rsp.status = StatusTooManyRequests
  THEN calculateRetryAfterDelay(rsp, opts, a, now, r)
  ELSE calculateBackoffDelay(opts, a, r)

\* variant: the budget allows one retry too many
DoLoopGuard_oneMore(opts, retries, rsp, e) ==
  retries <= opts.MaxRetries /\ shouldRetry(opts, rsp, e)

\* middleware: the condition of the retry loop
DoLoopGuard(opts, retries, rsp, e) ==
  retries < opts.MaxRetries /\ shouldRetry(opts, rsp, e)

\* pkg/anytype NewRetryMiddleware: capture of the body and entry of the loop
RTStart ==
  /\ impl = "RT" /\ pc = "init"
  /\ reqBody' = IF body # NoBody THEN Drained(body) ELSE reqBody
  /\ attempt' = 0
  /\ IF 0 <= options.MaxRetries
     THEN pc' = "call" /\ UNCHANGED result
     ELSE Return(resp, err)
  /\ UNCHANGED <<impl, options, body, ctxDone, resp, err, delay, outcomes, seen, waits,
                 respClosed, cancelDuringWait, retriedAfterCancel, fnVars, discVars, chainVars, logVars>>

\* variant: the abandoned response is left open
CloseBody_leak(closed, rsp) == closed

\* if resp.Body != nil { resp.Body.Close() }
CloseBody(closed, rsp) == closed \cup {rsp.id}

\* one pass of the loop body up to the select
RTCall ==
  /\ impl = "RT" /\ pc = "call"
  /\ LET stream == RTAttemptStream(body, reqBody, attempt)
     IN \E out \in TransportOutcomes(Len(outcomes) + 1, ctxDone),
           obs \in ReadObservations(stream),
           now \in 0 .. MaxClock,
           r \in RandBits :
          /\ outcomes' = Append(outcomes, out)
          /\ seen' = Append(seen, obs)
          /\ resp' = out.resp
          /\ err' = out.err
          /\ IF RTReturnsNow(options, out.resp, out.err)
             THEN Return(out.resp, out.err) /\ UNCHANGED <<delay, waits, respClosed>>
             ELSE IF RTExhausted(options, attempt)
                  THEN Return(out.resp, out.err) /\ UNCHANGED <<delay, waits, respClosed>>
                  ELSE LET retryAfter == RTRetryAfter(options, out.resp, attempt, now, r)
                       IN /\ delay' = retryAfter
                          /\ waits' = Append(waits, retryAfter)
                          /\ respClosed' = CloseBody(respClosed, out.resp)
                          /\ pc' = "select"
                          /\ UNCHANGED result
  /\ UNCHANGED <<impl, options, body, reqBody, ctxDone, attempt,
                 cancelDuringWait, retriedAfterCancel, fnVars, discVars, chainVars, logVars>>

\* middleware.RetryMiddleware.Do: newBodyCloner
DoStart ==
  /\ impl = "Do" /\ pc = "init"
  /\ reqBody' = IF body # NoBody THEN Fresh(body) ELSE reqBody
  /\ attempt' = 0
  /\ pc' = "call"
  /\ UNCHANGED <<impl, options, body, ctxDone, resp, err, delay, outcomes, seen, waits,
                 respClosed, result, cancelDuringWait, retriedAfterCancel, fnVars, discVars, chainVars, logVars>>

\* m.Next.Do (the initial request, or the retry with retries++) and the loop test
DoCall ==
  /\ impl = "Do" /\ pc = "call"
  /\ LET first   == outcomes = <<>>
         stream  == IF first THEN reqBody
                    ELSE IF body # NoBody THEN Fresh(body) ELSE reqBody
         retries == IF first THEN 0 ELSE attempt + 1
     IN \E out \in TransportOutcomes(Len(outcomes) + 1, ctxDone),
           obs \in ReadObservations(stream) :
          /\ outcomes' = Append(outcomes, out)
          /\ seen' = Append(seen, obs)
          /\ resp' = out.resp
          /\ err' = out.err
          /\ attempt' = retries
          /\ IF DoLoopGuard(options, retries, out.resp, out.err)
             THEN LET d == exponentialBackoff(options.RetryDelay, retries, options.MaxRetryDelay)
                  IN /\ delay' = d
                     /\ waits' = Append(waits, d)
                     /\ pc' = "select"
                     /\ UNCHANGED result
             ELSE Return(out.resp, out.err) /\ UNCHANGED <<delay, waits>>
  /\ UNCHANGED <<impl, options, body, reqBody, ctxDone, respClosed,
                 cancelDuringWait, retriedAfterCancel, fnVars, discVars, chainVars, logVars>>

\* variant: the abandoned response handed back with the cancellation error
CancelBranch_stale == Return(resp, CtxErr)

\* The two branches of the select, as each engine writes them.
CancelBranch ==
  IF impl = "RT" THEN Return(NilResp, CtxErr) ELSE Return(resp, CtxErr)

TimerBranch ==
  /\ pc' = "call"
  /\ UNCHANGED result

AfterTimer == IF impl = "RT" THEN attempt + 1 ELSE attempt

\* select entered with Done() already closed
WaitCtxReady ==
  /\ pc = "select" /\ ctxDone
  /\ CancelBranch
  /\ UNCHANGED <<impl, options, body, reqBody, ctxDone, attempt, resp, err, delay, outcomes,
                 seen, waits, respClosed, cancelDuringWait, retriedAfterCancel, fnVars, discVars, chainVars, logVars>>

\* select entered with the timer channel already readable: a timer of
\* non-positive duration may have fired by then; when Done() is closed as
\* well, select picks one of the two ready cases at random.
WaitTimerReady ==
  /\ pc = "select" /\ delay <= 0
  /\ TimerBranch
  /\ attempt' = AfterTimer
  /\ retriedAfterCancel' = (retriedAfterCancel \/ ctxDone)
  /\ UNCHANGED <<impl, options, body, reqBody, ctxDone, resp, err, delay, outcomes,
                 seen, waits, respClosed, cancelDuringWait, fnVars, discVars, chainVars, logVars>>

\* select entered with neither channel ready: the call blocks
WaitPark ==
  /\ pc = "select" /\ ~ctxDone
  /\ pc' = "parked"
  /\ UNCHANGED <<impl, options, body, reqBody, ctxDone, attempt, resp, err, delay, outcomes,
                 seen, waits, respClosed, result, cancelDuringWait, retriedAfterCancel, fnVars, discVars, chainVars, logVars>>

\* the timer fires while the call is blocked
WaitElapsed ==
  /\ pc = "parked"
  /\ TimerBranch
  /\ attempt' = AfterTimer
  /\ UNCHANGED <<impl, options, body, reqBody, ctxDone, resp, err, delay, outcomes,
                 seen, waits, respClosed, cancelDuringWait, retriedAfterCancel, fnVars, discVars, chainVars, logVars>>

\* the caller cancels the context (or its deadline passes); a call blocked in
\* select is woken on the Done() case
Cancel ==
  /\ ~ctxDone
  /\ pc \in {"init", "call", "select", "parked"}
  /\ ctxDone' = TRUE
  /\ IF pc = "parked"
     THEN CancelBranch /\ cancelDuringWait' = TRUE
     ELSE UNCHANGED <<pc, result, cancelDuringWait>>
  /\ UNCHANGED <<impl, options, body, reqBody, attempt, resp, err, delay, outcomes,
                 seen, waits, respClosed, retriedAfterCancel, fnVars, discVars, chainVars, logVars>>

-----------------------------------------------------------------------------
(* Evaluation of calculateBackoffDelay on its own *)

FnProfiles ==
  { [MinRetryDelay |-> mn, MaxRetryDelay |-> mx,
     FactorNum |-> f[1], FactorDen |-> f[2], RetryJitter |-> j] :
      mn \in {0, Millisecond, 1500, 100 * Millisecond, 200 * Millisecond},
      mx \in {300 * Millisecond, 30 * Second},
      f \in {<<1, 1>>, <<3, 2>>, <<2, 1>>},
      j \in {0, 100 * Millisecond} }

NoResult == [done |-> FALSE, val |-> 0]

FnInit ==
  /\ fin \in { [opts |-> MkOptions(0, DefaultRetryableStatusCodes, d), a |-> a, r |-> r] :
                 d \in FnProfiles, a \in 0 .. MaxAttemptIdx, r \in RandBits }
  /\ fout = NoResult

FnIdle ==
  /\ fin = [opts |-> MkOptions(0, DefaultRetryableStatusCodes,
                               [MinRetryDelay |-> 0, MaxRetryDelay |-> 0,
                                FactorNum |-> 1, FactorDen |-> 1, RetryJitter |-> 0]),
            a |-> 0, r |-> 0]
  /\ fout = NoResult

ApplyBackoff ==
  /\ ~fout.done
  /\ pc = "off"
  /\ fout' = [done |-> TRUE, val |-> calculateBackoffDelay(fin.opts, fin.a, fin.r)]
  /\ UNCHANGED <<fin, retryVars, discVars, chainVars, logVars>>

-----------------------------------------------------------------------------
(* middleware.exponentialBackoff in the arithmetic of time.Duration: int64, *)
(* two's complement, counted in nanoseconds.  A word is its 64 bits, bit i  *)
(* weighing 2^i.                                                            *)

WordBits == 64
BitIndex == 0 .. WordBits - 1

\* the word of an integer 0 <= n < 2^31
ToWord(n) == [i \in BitIndex |-> IF i < 31 THEN (n \div Pow(2, i)) % 2 ELSE 0]

ZeroWord == [i \in BitIndex |-> 0]

\* w << k; Go gives 0 when the shift count reaches the width
Shl(w, k) == [i \in BitIndex |-> IF i >= k THEN w[i - k] ELSE 0]

\* the sign bit
IsNegative(w) == w[WordBits - 1] = 1

\* a > b as unsigned numbers
UnsignedGreater(a, b) ==
  \E i \in BitIndex :
    /\ a[i] = 1 /\ b[i] = 0
    /\ \A j \in BitIndex : j > i => a[j] = b[j]

\* a > b as int64
Greater(a, b) ==
  IF IsNegative(a) # IsNegative(b) THEN IsNegative(b) ELSE UnsignedGreater(a, b)

\* delay := baseDelay * (1 << uint(retry)); if delay > maxDelay { delay = maxDelay }.
\* The product with the one-bit word 1 << retry is baseDelay << retry, cut to
\* 64 bits.
exponentialBackoff64(baseDelay, retry, maxDelay) ==
  LET d == Shl(ToWord(baseDelay), retry)
  IN  IF Greater(d, ToWord(maxDelay)) THEN ToWord(maxDelay) ELSE d

\* durations in nanoseconds handed to exponentialBackoff on its own
NanoSecond == 1
NanoDelays == {0, NanoSecond, 1000000 * NanoSecond, 1000000000 * NanoSecond,
               2000000000 * NanoSecond}

ExpBackoffInit ==
  /\ fin \in { [baseDelay |-> b, retry |-> k, maxDelay |-> mx] :
                 b \in NanoDelays, mx \in NanoDelays \ {0, NanoSecond},
                 k \in 0 .. MaxRetryIndex }
  /\ fin.baseDelay <= fin.maxDelay
  /\ fout = NoResult

ApplyExponentialBackoff ==
  /\ ~fout.done
  /\ pc = "off"
  /\ fout' = [done |-> TRUE,
              val |-> exponentialBackoff64(fin.baseDelay, fin.retry, fin.maxDelay)]
  /\ UNCHANGED <<fin, retryVars, discVars, chainVars, logVars>>

\* Retry-After values handed to calculateRetryAfterDelay on its own: absent,
\* whole seconds, a negative integer, text that parses as neither, and HTTP
\* dates at the seconds 0 .. MaxClock + 1 of the model's clock.
FnRetryAfterHeaders ==
  {NoHeader, <<"0">>, <<"2">>, <<"-", "1">>, <<"s", "o", "o", "n">>}
    \cup {<<"T", c>> : c \in {"0", "1", "2", "3"}}

RetryAfterInit ==
  /\ fin \in { [rsp |-> MkResp(StatusTooManyRequests, h, 1),
                opts |-> MkOptions(0, DefaultRetryableStatusCodes, d),
                a |-> a, now |-> now, r |-> r] :
                 h \in FnRetryAfterHeaders, d \in DelayProfiles,
                 a \in 0 .. MaxAttemptIdx, now \in 0 .. MaxClock, r \in RandBits }
  /\ fout = NoResult

ApplyRetryAfter ==
  /\ ~fout.done
  /\ pc = "off"
  /\ fout' = [done |-> TRUE,
              val |-> calculateRetryAfterDelay(fin.rsp, fin.opts, fin.a, fin.now, fin.r)]
  /\ UNCHANGED <<fin, retryVars, discVars, chainVars, logVars>>

-----------------------------------------------------------------------------
(* middleware.DisconnectMiddleware *)

Callers == 1 .. NumCallers

\* Errors Next.Do can return.  type is the dynamic type of the error value,
\* inner the dynamic type of Err inside a *url.Error, text the words of
\* Error().
NoError == [type |-> "nil", inner |-> "nil", text |-> <<>>]

DoErrors ==
  { [type |-> "*net.OpError", inner |-> "nil",
     text |-> <<"read", "tcp", "i/o", "timeout">>],
    [type |-> "*url.Error", inner |-> "*net.OpError",
     text |-> <<"Get", "dial", "tcp", "connection", "refused">>],
    [type |-> "*url.Error", inner |-> "*errors.errorString",
     text |-> <<"Get", "unexpected", "EOF">>],
    [type |-> "*errors.errorString", inner |-> "nil",
     text |-> <<"write", "connection", "reset", "by", "peer">>],
    [type |-> "*errors.errorString", inner |-> "nil",
     text |-> <<"unexpected", "EOF">>] }

DoResults == {NoError} \cup DoErrors

\* The response that comes with a result of Next.Do: a response when there is
\* no error; with an error usually none, but an HTTPDoer may hand back both.
NoResponse == "nil"
DoResponses(e) ==
  IF e = NoError THEN {"response"}
  ELSE IF e.type = "*errors.errorString" THEN {NoResponse, "response"}
       ELSE {NoResponse}

\* The types whose method set satisfies net.Error (Error, Timeout,
\* Temporary): *net.OpError and also *url.Error itself.
ImplementsNetError(t) == t \in {"*net.OpError", "*url.Error"}

\* strings.Contains, on texts and patterns made of whole words
Contains(text, pat) ==
  \E i \in 0 .. Len(text) - Len(pat) : SubSeq(text, i + 1, i + Len(pat)) = pat

DisconnectMessages ==
  { <<"connection", "refused">>, <<"no", "such", "host">>, <<"host", "unreachable">>,
    <<"i/o", "timeout">>, <<"network", "is", "unreachable">>,
    <<"connection", "reset", "by", "peer">> }

isNetworkError(e) ==
  IF e = NoError THEN FALSE
  ELSE IF ImplementsNetError(e.type) THEN TRUE
  ELSE IF e.type = "*url.Error" /\ ImplementsNetError(e.inner) THEN TRUE
  ELSE \E m \in DisconnectMessages : Contains(e.text, m)

\* variant: any result arriving while disconnected counts as a reconnection
ReconnectDue_anyResult(conn, e) == ~conn

\* Do: wasDisconnected && err == nil
ReconnectDue(conn, e) == ~conn /\ e = NoError

\* handleReconnect: if !m.connected, tested again under the write lock
StillDisconnected_unchecked(conn) == TRUE

StillDisconnected(conn) == ~conn

NoCallback == "none"

\* The goroutines that can be inside IsConnected: one that issues no request,
\* and every caller from within its callback.
Observer == 0
Readers == {Observer} \cup Callers
NotReading == "none"
ReadValue(conn) == IF conn THEN "true" ELSE "false"

\* the results of Next.Do drawn when calls overlap: no error, a disconnect
\* error, an error that is not one
OverlapResults ==
  { NoError,
    [type |-> "*net.OpError", inner |-> "nil",
     text |-> <<"read", "tcp", "i/o", "timeout">>],
    [type |-> "*errors.errorString", inner |-> "nil",
     text |-> <<"unexpected", "EOF">>] }

DiscInit ==
  /\ dcfg \in [OnDisconnect : BOOLEAN, OnReconnect : BOOLEAN]
  /\ connected = TRUE
  /\ mu = [w |-> 0, r |-> {}]
  /\ dpc = [p \in Callers |-> "idle"]
  /\ derr = [p \in Callers |-> NoError]
  /\ dresp = [p \in Callers |-> NoResponse]
  /\ nextCalls = 0
  /\ dfired = [p \in Callers |-> NoCallback]
  /\ cbLog = <<>>
  /\ callLog = <<>>
  /\ isconn = [g \in Readers |-> NotReading]

DiscIdle ==
  /\ dcfg = [OnDisconnect |-> FALSE, OnReconnect |-> FALSE]
  /\ connected = TRUE
  /\ mu = [w |-> 0, r |-> {}]
  /\ dpc = [p \in Callers |-> "off"]
  /\ derr = [p \in Callers |-> NoError]
  /\ dresp = [p \in Callers |-> NoResponse]
  /\ nextCalls = 0
  /\ dfired = [p \in Callers |-> NoCallback]
  /\ cbLog = <<>>
  /\ callLog = <<>>
  /\ isconn = [g \in Readers |-> NotReading]

CallsStarted == Len(callLog) + Cardinality({p \in Callers : dpc[p] # "idle"})

\* a caller enters Do: m.Next.Do(req) is in flight
DEnter(p, limit) ==
  /\ dpc[p] = "idle"
  /\ CallsStarted < limit
  /\ dpc' = [dpc EXCEPT ![p] = "next"]
  /\ UNCHANGED <<dcfg, isconn, connected, mu, derr, dresp, nextCalls, dfired, cbLog, callLog,
                 retryVars, fnVars, chainVars, logVars>>

\* while other calls may be in progress
DStart(p) == DEnter(p, MaxConcCalls)

\* when no other call is in progress
DStartSeq(p) ==
  /\ \A q \in Callers : dpc[q] = "idle"
  /\ DEnter(p, MaxCalls)

\* Next.Do returns and the error is classified
DNextReturnsFrom(p, results) ==
  /\ dpc[p] = "next"
  /\ \E e \in results :
       \E rsp \in DoResponses(e) :
         /\ derr' = [derr EXCEPT ![p] = e]
         /\ dresp' = [dresp EXCEPT ![p] = rsp]
         /\ dpc' = [dpc EXCEPT ![p] = IF isNetworkError(e) THEN "handleDisconnect" ELSE "RLock"]
  /\ nextCalls' = nextCalls + 1
  /\ UNCHANGED <<dcfg, isconn, connected, mu, dfired, cbLog, callLog, retryVars, fnVars, chainVars, logVars>>

DNextReturns(p) == DNextReturnsFrom(p, DoResults)

DNextReturnsOverlap(p) == DNextReturnsFrom(p, OverlapResults)

\* handleDisconnect: m.mu.Lock() acquired, up to the callback or the return
DHandleDisconnect(p) ==
  /\ dpc[p] = "handleDisconnect"
  /\ mu.w = 0 /\ mu.r = {}
  /\ IF connected
     THEN /\ connected' = FALSE
          /\ IF dcfg.OnDisconnect
             THEN /\ mu' = [mu EXCEPT !.w = p]
                  /\ cbLog' = Append(cbLog, "OnDisconnect")
                  /\ dfired' = [dfired EXCEPT ![p] = "OnDisconnect"]
                  /\ dpc' = [dpc EXCEPT ![p] = "callback"]
             ELSE /\ dpc' = [dpc EXCEPT ![p] = "return"]
                  /\ UNCHANGED <<mu, cbLog, dfired>>
     ELSE /\ dpc' = [dpc EXCEPT ![p] = "return"]
          /\ UNCHANGED <<connected, mu, cbLog, dfired>>
  /\ UNCHANGED <<dcfg, isconn, derr, dresp, nextCalls, callLog, retryVars, fnVars, chainVars, logVars>>

\* m.mu.RLock(); wasDisconnected := !m.connected; m.mu.RUnlock()
DReadConnected(p) ==
  /\ dpc[p] = "RLock"
  /\ mu.w = 0
  /\ dpc' = [dpc EXCEPT ![p] = IF ReconnectDue(connected, derr[p])
                               THEN "handleReconnect" ELSE "return"]
  /\ UNCHANGED <<dcfg, isconn, connected, mu, derr, dresp, nextCalls, dfired, cbLog, callLog,
                 retryVars, fnVars, chainVars, logVars>>

\* handleReconnect: m.mu.Lock() acquired, up to the callback or the return
DHandleReconnect(p) ==
  /\ dpc[p] = "handleReconnect"
  /\ mu.w = 0 /\ mu.r = {}
  /\ IF StillDisconnected(connected)
     THEN /\ connected' = TRUE
          /\ IF dcfg.OnReconnect
             THEN /\ mu' = [mu EXCEPT !.w = p]
                  /\ cbLog' = Append(cbLog, "OnReconnect")
                  /\ dfired' = [dfired EXCEPT ![p] = "OnReconnect"]
                  /\ dpc' = [dpc EXCEPT ![p] = "callback"]
             ELSE /\ dpc' = [dpc EXCEPT ![p] = "return"]
                  /\ UNCHANGED <<mu, cbLog, dfired>>
     ELSE /\ dpc' = [dpc EXCEPT ![p] = "return"]
          /\ UNCHANGED <<connected, mu, cbLog, dfired>>
  /\ UNCHANGED <<dcfg, isconn, derr, dresp, nextCalls, callLog, retryVars, fnVars, chainVars, logVars>>

\* the callback returns and the deferred m.mu.Unlock() runs
DCallbackReturns(p) ==
  /\ dpc[p] = "callback"
  /\ mu.w = p
  /\ mu' = [mu EXCEPT !.w = 0]
  /\ dpc' = [dpc EXCEPT ![p] = "return"]
  /\ UNCHANGED <<dcfg, isconn, connected, derr, dresp, nextCalls, dfired, cbLog, callLog,
                 retryVars, fnVars, chainVars, logVars>>

\* the callback calls m.IsConnected() on the middleware that is running it
DCallbackIsConnected(p) ==
  /\ dpc[p] = "callback"
  /\ dpc' = [dpc EXCEPT ![p] = "cbIsConnected"]
  /\ UNCHANGED <<dcfg, isconn, connected, mu, derr, dresp, nextCalls, dfired, cbLog, callLog,
                 retryVars, fnVars, chainVars, logVars>>

\* IsConnected: m.mu.RLock() acquired and m.connected read.  sync.RWMutex is
\* not reentrant: the read lock waits for the writer, whoever it is.
DIsConnectedRLock(g) ==
  /\ isconn[g] = NotReading
  /\ g \in Callers => dpc[g] = "cbIsConnected"
  /\ mu.w = 0
  /\ mu' = [mu EXCEPT !.r = @ \cup {g}]
  /\ isconn' = [isconn EXCEPT ![g] = ReadValue(connected)]
  /\ UNCHANGED <<dcfg, connected, dpc, derr, dresp, nextCalls, dfired, cbLog, callLog,
                 retryVars, fnVars, chainVars, logVars>>

\* IsConnected: the deferred m.mu.RUnlock() runs and the value is returned
DIsConnectedReturns(g) ==
  /\ isconn[g] # NotReading
  /\ mu' = [mu EXCEPT !.r = @ \ {g}]
  /\ isconn' = [isconn EXCEPT ![g] = NotReading]
  /\ dpc' = IF g \in Callers THEN [dpc EXCEPT ![g] = "callback"] ELSE dpc
  /\ UNCHANGED <<dcfg, connected, derr, dresp, nextCalls, dfired, cbLog, callLog,
                 retryVars, fnVars, chainVars, logVars>>

\* variant: a disconnect error reported as a plain failure without its response
DReturnValue_replaced(rsp, e) ==
  [resp |-> IF isNetworkError(e) THEN NoResponse ELSE rsp, err |-> e]

\* the pair Do hands back: its locals resp and err
DReturnValue(rsp, e) == [resp |-> rsp, err |-> e]

\* return resp, err
DReturn(p) ==
  /\ dpc[p] = "return"
  /\ callLog' = Append(callLog, [err |-> derr[p], resp |-> dresp[p], fired |-> dfired[p],
                                 ret |-> DReturnValue(dresp[p], derr[p])])
  /\ dpc' = [dpc EXCEPT ![p] = "idle"]
  /\ derr' = [derr EXCEPT ![p] = NoError]
  /\ dresp' = [dresp EXCEPT ![p] = NoResponse]
  /\ dfired' = [dfired EXCEPT ![p] = NoCallback]
  /\ UNCHANGED <<dcfg, isconn, connected, mu, nextCalls, cbLog, retryVars, fnVars, chainVars, logVars>>

-----------------------------------------------------------------------------
(* Composition: pkg/anytype Chain and middleware.Chain *)

\* The middlewares that can be registered.  Each is a plain wrapper: it sees
\* the request, delegates once to the transport it wraps, sees the result.
Units == {"u1", "u2", "u3"}

RECURSIVE SeqsUpTo(_)
SeqsUpTo(n) ==
  IF n = 0 THEN {<<>>}
  ELSE LET shorter == SeqsUpTo(n - 1)
       IN shorter \cup {Append(q, u) : q \in {x \in shorter : Len(x) = n - 1}, u \in Units}

\* middlewares[i].Execute(next), c.middlewares[i](result): the middleware
\* wraps the transport it is handed; the new transport's outermost layer is
\* the middleware.
Wrap(mw, next) == <<mw>> \o next

\* variant: the middlewares are applied from the first to the last, which
\* leaves the last one outermost
RECURSIVE Execute_forward(_, _, _)
Execute_forward(middlewares, i, next) ==
  IF i < 1 THEN next
  ELSE Wrap(middlewares[i], Execute_forward(middlewares, i - 1, next))

\* The loop of Chain's closure: for i := len(middlewares) - 1; i >= 0; i--
\* (indices from 1 here: Execute(middlewares, Len(middlewares), next)).
RECURSIVE Execute(_, _, _)
Execute(middlewares, i, next) ==
  IF i < 1 THEN next
  ELSE Execute(middlewares, i - 1, Wrap(middlewares[i], next))

\* Chain.Build: result := c.client, then the same loop over c.middlewares
RECURSIVE Build(_, _, _)
Build(middlewares, i, client) ==
  IF i < 1 THEN client
  ELSE Build(middlewares, i - 1, Wrap(middlewares[i], client))

ChainInit ==
  /\ cimpl \in {"Chain", "NewChain"}
  /\ cbase \in {"base", "nil"}
  /\ cmws \in (IF cimpl = "Chain" THEN SeqsUpTo(MaxUnits) ELSE {<<>>})
  /\ cpc = "config"
  /\ composed = <<>>
  /\ cdepth = 0
  /\ ctrace = <<>>

ChainIdle ==
  /\ cimpl = "Chain"
  /\ cbase = "base"
  /\ cmws = <<>>
  /\ cpc = "off"
  /\ composed = <<>>
  /\ cdepth = 0
  /\ ctrace = <<>>

\* Chain.Use
ChainUse ==
  /\ cimpl = "NewChain"
  /\ cpc = "config"
  /\ Len(cmws) < MaxUnits
  /\ \E mw \in Units : cmws' = Append(cmws, mw)
  /\ UNCHANGED <<cimpl, cbase, cpc, composed, cdepth, ctrace, retryVars, fnVars, discVars, logVars>>

\* Chain.Build
ChainBuild ==
  /\ cimpl = "NewChain"
  /\ cpc = "config"
  /\ composed' = Build(cmws, Len(cmws), <<cbase>>)
  /\ cpc' = "built"
  /\ UNCHANGED <<cimpl, cbase, cmws, cdepth, ctrace, retryVars, fnVars, discVars, logVars>>

\* Chain(middlewares...).Execute(next)
ChainExecute ==
  /\ cimpl = "Chain"
  /\ cpc = "config"
  /\ composed' = Execute(cmws, Len(cmws), <<cbase>>)
  /\ cpc' = "built"
  /\ UNCHANGED <<cimpl, cbase, cmws, cdepth, ctrace, retryVars, fnVars, discVars, logVars>>

\* the first request is handed to the composed transport
ChainRequest ==
  /\ cpc = "built"
  /\ cpc' = "down"
  /\ cdepth' = 1
  /\ UNCHANGED <<cimpl, cbase, cmws, composed, ctrace, retryVars, fnVars, discVars, logVars>>

\* The layer the request is at handles it: a middleware sees it and calls the
\* transport it wraps, the base answers it, and a call on a nil transport is
\* a nil dereference that panics.
ChainDown ==
  /\ cpc = "down"
  /\ LET layer == composed[cdepth]
     IN IF layer \in Units
        THEN /\ ctrace' = Append(ctrace, [unit |-> layer, sees |-> "request"])
             /\ cdepth' = cdepth + 1
             /\ UNCHANGED cpc
        ELSE IF layer = "base"
             THEN /\ ctrace' = Append(ctrace, [unit |-> layer, sees |-> "request"])
                  /\ cdepth' = cdepth - 1
                  /\ cpc' = "up"
             ELSE /\ cpc' = "panic"
                  /\ UNCHANGED <<ctrace, cdepth>>
  /\ UNCHANGED <<cimpl, cbase, cmws, composed, retryVars, fnVars, discVars, logVars>>

\* the result travels back through the middlewares to the caller
ChainUp ==
  /\ cpc = "up"
  /\ IF cdepth = 0
     THEN cpc' = "done" /\ UNCHANGED <<ctrace, cdepth>>
     ELSE /\ ctrace' = Append(ctrace, [unit |-> composed[cdepth], sees |-> "result"])
          /\ cdepth' = cdepth - 1
          /\ UNCHANGED cpc
  /\ UNCHANGED <<cimpl, cbase, cmws, composed, retryVars, fnVars, discVars, logVars>>

-----------------------------------------------------------------------------
(* pkg/anytype NewLoggingMiddleware *)

\* logBody truncates what it emits beyond this many bytes
TruncateAt == 1000

\* A byte string: the bytes of pre followed by fill bytes "x".  The long
\* bodies differ from the short ones only in the length of that run.
MkBytes(pre, fill) == [pre |-> pre, fill |-> fill]
EmptyBytes == MkBytes(<<>>, 0)

\* len(body)
BLen(b) == Len(b.pre) + b.fill

\* body[:k]
BTake(b, k) ==
  IF k <= Len(b.pre) THEN MkBytes(SubSeq(b.pre, 1, k), 0)
  ELSE MkBytes(b.pre, Min(b.fill, k - Len(b.pre)))

\* the byte strings without insignificant white space
IsSpace(t) == t \in {" ", "\n", "    ", "  "}
Compact(q) == SelectSeq(q, LAMBDA t : ~IsSpace(t))

\* What json.Indent accepts, among the bodies drawn here: a flat array of
\* one-digit numbers, with or without spaces.
JSONDigits == {"1", "2", "3"}
ValidJSON(b) ==
  /\ b.fill = 0
  /\ LET c == Compact(b.pre)
     IN /\ Len(c) >= 2
        /\ c[1] = "[" /\ c[Len(c)] = "]"
        /\ \/ Len(c) = 2
           \/ /\ Len(c) % 2 = 1
              /\ \A i \in 2 .. Len(c) - 1 :
                   IF i % 2 = 0 THEN c[i] \in JSONDigits ELSE c[i] = ","

\* json.Indent(&dst, body, "    ", "  "): every element on a line of its own,
\* behind the prefix and one indent; the closing bracket behind the prefix.
RECURSIVE IndentElements(_, _)
IndentElements(c, i) ==
  IF i > Len(c) - 1 THEN <<"\n", "    ", "]">>
  ELSE IF c[i] = "," THEN <<",">> \o IndentElements(c, i + 1)
       ELSE <<"\n", "    ", "  ", c[i]>> \o IndentElements(c, i + 1)

jsonIndent(b) ==
  LET c == Compact(b.pre)
  IN IF Len(c) = 2 THEN c ELSE <<"[">> \o IndentElements(c, 2)

\* One call of the Logger.  kind says which logging statement made it; the
\* other fields are its arguments.
Emission(kind, key, value, more, form, bytes, total) ==
  [kind |-> kind, key |-> key, value |-> value, more |-> more,
   form |-> form, bytes |-> bytes, total |-> total]

\* variant: the cut is one byte short
logBody_short(b, prefix) ==
  IF BLen(b) > TruncateAt
  THEN Emission("body", prefix, "", 0, "truncated", BTake(b, TruncateAt - 1), BLen(b))
  ELSE IF ValidJSON(b)
       THEN Emission("body", prefix, "", 0, "json", MkBytes(jsonIndent(b), 0), 0)
       ELSE Emission("body", prefix, "", 0, "text", b, 0)

\* logBody: "%s... [truncated, %d bytes total]" beyond TruncateAt bytes, else
\* the indented JSON when the body parses, else the body as text
logBody(b, prefix) ==
  IF BLen(b) > TruncateAt
  THEN Emission("body", prefix, "", 0, "truncated", BTake(b, TruncateAt), BLen(b))
  ELSE IF ValidJSON(b)
       THEN Emission("body", prefix, "", 0, "json", MkBytes(jsonIndent(b), 0), 0)
       ELSE Emission("body", prefix, "", 0, "text", b, 0)

\* variant: a header with several values is emitted before the redaction test
HeaderLine_multi(key, values, redactedHeaders) ==
  IF Len(values) > 1
  THEN Emission("header", key, values[1], Len(values) - 1, "", EmptyBytes, 0)
  ELSE IF key \in redactedHeaders
       THEN Emission("header", key, "[REDACTED]", 0, "", EmptyBytes, 0)
       ELSE Emission("header", key, values[1], 0, "", EmptyBytes, 0)

\* The body of logHeaders' loop: value is values[0], with "(+N more)" when
\* there are more, and "[REDACTED]" when key equals an entry of the list.
HeaderLine(key, values, redactedHeaders) ==
  IF key \in redactedHeaders
  THEN Emission("header", key, "[REDACTED]", 0, "", EmptyBytes, 0)
  ELSE Emission("header", key, values[1], Len(values) - 1, "", EmptyBytes, 0)

\* the orders in which a range over a Go map can visit its keys
Orders(S) ==
  {q \in [1 .. Cardinality(S) -> S] : \A i, j \in DOMAIN q : q[i] = q[j] => i = j}

\* logHeaders: one emission per key, in any order
logHeaders(headers, redactedHeaders) ==
  {[i \in DOMAIN q |-> HeaderLine(q[i], headers[q[i]], redactedHeaders)] :
     q \in Orders(DOMAIN headers)}

\* Body streams.  data is what the stream delivers before it ends; fails says
\* that it then ends with an error instead of io.EOF.
NilStream == [nil |-> TRUE, data |-> EmptyBytes, consumed |-> FALSE, fails |-> FALSE]
Stream(b, fails) == [nil |-> FALSE, data |-> b, consumed |-> FALSE, fails |-> fails]

\* variant: the stream put back is the one already read to its end
NewReader_drained(b) == [nil |-> FALSE, data |-> b, consumed |-> TRUE, fails |-> FALSE]

\* io.NopCloser(bytes.NewReader(b))
NewReader(b) == Stream(b, FALSE)

\* io.ReadAll(s): the bytes still to come, the error, and the stream afterwards
ReadAll(s) ==
  [bytes |-> IF s.consumed THEN EmptyBytes ELSE s.data,
   err |-> s.fails,
   after |-> [s EXCEPT !.consumed = TRUE]]

\* what a reader handed the stream s can get out of it
ReadFrom(s) ==
  [nil |-> s.nil,
   bytes |-> IF s.nil THEN EmptyBytes ELSE ReadAll(s).bytes,
   err |-> ~s.nil /\ s.fails]

DefaultRedactedHeaders == {"Authorization", "Token", "Api-Key", "Apikey", "Secret"}

LoggingConfigs ==
  [Logger : BOOLEAN, LogRequestHeaders : BOOLEAN, LogResponseHeaders : BOOLEAN,
   LogRequestBody : BOOLEAN, LogResponseBody : BOOLEAN, LogTiming : BOOLEAN,
   RedactedHeaders : {DefaultRedactedHeaders, {}}]

LogBodies ==
  { EmptyBytes,
    MkBytes(<<"h", "i">>, 0),
    MkBytes(<<"[", "1", ",", " ", "2", "]">>, 0),
    MkBytes(<<"h", "i">>, TruncateAt - 2),
    MkBytes(<<"h", "i">>, TruncateAt - 1) }

LogStreams ==
  {NilStream} \cup {Stream(b, FALSE) : b \in LogBodies}
              \cup {Stream(MkBytes(<<"h", "i">>, 0), TRUE)}

RequestHeaders ==
  { ("Authorization" :> <<"s1">>) @@ ("Accept" :> <<"a1">>),
    ("Authorization" :> <<"s1", "s2">>) @@ ("Accept" :> <<"a1", "a2">>),
    ("authorization" :> <<"s3">>) }

ResponseHeaders ==
  { ("Token" :> <<"t1", "t2">>) @@ ("Content-Type" :> <<"c1">>),
    ("Content-Type" :> <<"c1">>) }

LogRequests == [header : RequestHeaders, body : LogStreams]

\* What next.RoundTrip can return: a response, an error, and (the types allow
\* it) both or neither.
NoLogResp == [status |-> 0, header |-> ("-" :> <<"-">>), body |-> NilStream]
LogResponses ==
  [status : {StatusOK}, header : ResponseHeaders, body : LogStreams]
    \cup {[status |-> StatusInternalServerError,
           header |-> ("Content-Type" :> <<"c1">>),
           body |-> Stream(MkBytes(<<"h", "i">>, 0), FALSE)]}
LogOutcomes ==
  {[resp |-> r, err |-> NoErr] : r \in LogResponses}
    \cup {[resp |-> NoLogResp, err |-> ConnErr]}
    \cup {[resp |-> r, err |-> ConnErr] : r \in {x \in LogResponses : x.status # StatusOK}}
    \cup {[resp |-> NoLogResp, err |-> NoErr]}

NoLogOutcome == [resp |-> NoLogResp, err |-> "none"]
NotSeen == [header |-> ("-" :> <<"-">>), body |-> ReadFrom(NilStream)]

LogInit ==
  /\ lopts \in LoggingConfigs
  /\ lorig \in LogRequests
  /\ lreq = lorig
  /\ lpc = "start"
  /\ llog = <<>>
  /\ lseen = NotSeen
  /\ lout = NoLogOutcome
  /\ lret = NoLogOutcome

LogIdle ==
  /\ lopts = [Logger |-> FALSE, LogRequestHeaders |-> FALSE, LogResponseHeaders |-> FALSE,
              LogRequestBody |-> FALSE, LogResponseBody |-> FALSE, LogTiming |-> FALSE,
              RedactedHeaders |-> {}]
  /\ lorig = [header |-> ("-" :> <<"-">>), body |-> NilStream]
  /\ lreq = lorig
  /\ lpc = "off"
  /\ llog = <<>>
  /\ lseen = NotSeen
  /\ lout = NoLogOutcome
  /\ lret = NoLogOutcome

\* Before the request is passed on: the request line, the headers, the body
\* (read, emitted, and put back as a fresh reader unless the read failed).
LogRequest ==
  /\ lpc = "start"
  /\ IF ~lopts.Logger
     THEN UNCHANGED <<llog, lreq>>
     ELSE \E hs \in (IF lopts.LogRequestHeaders
                     THEN logHeaders(lreq.header, lopts.RedactedHeaders)
                     ELSE {<<>>}) :
            LET reads == lopts.LogRequestBody /\ ~lreq.body.nil
                rd == ReadAll(lreq.body)
                line == Emission("request", "", "", 0, "", EmptyBytes, 0)
                failed == Emission("error", "Request Body", "", 0, "", EmptyBytes, 0)
            IN /\ llog' = <<line>> \o hs
                            \o (IF ~reads THEN <<>>
                                ELSE IF rd.err THEN <<failed>>
                                ELSE <<logBody(rd.bytes, "Request Body")>>)
               /\ lreq' = IF ~reads THEN lreq
                          ELSE IF rd.err THEN [lreq EXCEPT !.body = rd.after]
                          ELSE [lreq EXCEPT !.body = NewReader(rd.bytes)]
  /\ lpc' = "next"
  /\ UNCHANGED <<lopts, lorig, lseen, lout, lret, retryVars, fnVars, discVars, chainVars>>

\* resp, err := next.RoundTrip(req)
LogRoundTrip ==
  /\ lpc = "next"
  /\ lseen' = [header |-> lreq.header, body |-> ReadFrom(lreq.body)]
  /\ \E out \in LogOutcomes : lout' = out
  /\ lpc' = "after"
  /\ UNCHANGED <<lopts, lorig, lreq, llog, lret, retryVars, fnVars, discVars, chainVars>>

\* After next.RoundTrip: without a Logger the pair goes back as it is; with
\* one, an error is emitted and returned with a nil response, and otherwise
\* the status, the headers and the body are emitted (resp.StatusCode on a nil
\* resp is a nil dereference).
LogResponse ==
  /\ lpc = "after"
  /\ IF ~lopts.Logger
     THEN /\ lret' = lout
          /\ lpc' = "done"
          /\ UNCHANGED llog
     ELSE IF lout.err # NoErr
     THEN /\ llog' = Append(llog, Emission("error", "", lout.err, 0, "", EmptyBytes, 0))
          /\ lret' = [resp |-> NoLogResp, err |-> lout.err]
          /\ lpc' = "done"
     ELSE IF lout.resp = NoLogResp
     THEN /\ lpc' = "panic"
          /\ UNCHANGED <<llog, lret>>
     ELSE \E hs \in (IF lopts.LogResponseHeaders
                     THEN logHeaders(lout.resp.header, lopts.RedactedHeaders)
                     ELSE {<<>>}) :
            LET reads == lopts.LogResponseBody /\ ~lout.resp.body.nil
                rd == ReadAll(lout.resp.body)
                line == Emission("status", "", "", lout.resp.status,
                                 IF lopts.LogTiming THEN "timed" ELSE "", EmptyBytes, 0)
                failed == Emission("error", "Response Body", "", 0, "", EmptyBytes, 0)
            IN /\ llog' = llog \o <<line>> \o hs
                            \o (IF ~reads THEN <<>>
                                ELSE IF rd.err THEN <<failed>>
                                ELSE <<logBody(rd.bytes, "Response Body")>>)
               /\ lret' = [resp |-> IF ~reads THEN lout.resp
                                    ELSE IF rd.err THEN [lout.resp EXCEPT !.body = rd.after]
                                    ELSE [lout.resp EXCEPT !.body = NewReader(rd.bytes)],
                           err |-> lout.err]
               /\ lpc' = "done"
  /\ UNCHANGED <<lopts, lorig, lreq, lseen, lout, retryVars, fnVars, discVars, chainVars>>

-----------------------------------------------------------------------------
(* Specifications *)

NextRetry ==
  \/ RTStart
  \/ RTCall
  \/ DoStart
  \/ DoCall
  \/ WaitCtxReady
  \/ WaitTimerReady
  \/ WaitPark
  \/ WaitElapsed
  \/ Cancel

InitRetry == RetryInit /\ FnIdle /\ DiscIdle /\ ChainIdle /\ LogIdle

SpecRetry == InitRetry /\ [][NextRetry]_vars

\* The steps the goroutine of the call takes by itself: the wrapped transport
\* returns, a ready select case is taken, and a timer that was started fires.
\* The caller's cancellation is not among them: it may never come.
RetrySteps ==
  \/ RTStart
  \/ RTCall
  \/ DoStart
  \/ DoCall
  \/ WaitCtxReady
  \/ WaitTimerReady
  \/ WaitPark
  \/ WaitElapsed

SpecRetryFair == SpecRetry /\ WF_vars(RetrySteps)

NextBackoff == ApplyBackoff

InitBackoff == RetryIdle /\ FnInit /\ DiscIdle /\ ChainIdle /\ LogIdle

SpecBackoff == InitBackoff /\ [][NextBackoff]_vars

\* calls through one DisconnectMiddleware, one at a time
NextDisconnectSeq ==
  \E p \in Callers :
    \/ DStartSeq(p)
    \/ DNextReturns(p)
    \/ DHandleDisconnect(p)
    \/ DReadConnected(p)
    \/ DHandleReconnect(p)
    \/ DCallbackReturns(p)
    \/ DReturn(p)

InitDisconnect == RetryIdle /\ FnIdle /\ DiscInit /\ ChainIdle /\ LogIdle

SpecDisconnectSeq == InitDisconnect /\ [][NextDisconnectSeq]_vars

\* calls through one DisconnectMiddleware from concurrent goroutines
NextDisconnect ==
  \/ \E p \in Callers :
       \/ DStart(p)
       \/ DNextReturnsOverlap(p)
       \/ DHandleDisconnect(p)
       \/ DReadConnected(p)
       \/ DHandleReconnect(p)
       \/ DCallbackIsConnected(p)
       \/ DCallbackReturns(p)
       \/ DReturn(p)
  \/ \E g \in Readers :
       \/ DIsConnectedRLock(g)
       \/ DIsConnectedReturns(g)

SpecDisconnect == InitDisconnect /\ [][NextDisconnect]_vars

\* one composition, then one request through it
NextChain ==
  \/ ChainUse
  \/ ChainBuild
  \/ ChainExecute
  \/ ChainRequest
  \/ ChainDown
  \/ ChainUp

InitChain == RetryIdle /\ FnIdle /\ DiscIdle /\ ChainInit /\ LogIdle

SpecChain == InitChain /\ [][NextChain]_vars

\* exponentialBackoff on its own
NextExpBackoff == ApplyExponentialBackoff

InitExpBackoff == RetryIdle /\ ExpBackoffInit /\ DiscIdle /\ ChainIdle /\ LogIdle

SpecExpBackoff == InitExpBackoff /\ [][NextExpBackoff]_vars

\* calculateRetryAfterDelay on its own
NextRetryAfter == ApplyRetryAfter

InitRetryAfter == RetryIdle /\ RetryAfterInit /\ DiscIdle /\ ChainIdle /\ LogIdle

SpecRetryAfter == InitRetryAfter /\ [][NextRetryAfter]_vars

\* one request through the logging middleware
NextLogging ==
  \/ LogRequest
  \/ LogRoundTrip
  \/ LogResponse

InitLogging == RetryIdle /\ FnIdle /\ DiscIdle /\ ChainIdle /\ LogInit

SpecLogging == InitLogging /\ [][NextLogging]_vars

-----------------------------------------------------------------------------
(* Properties of the retry engines *)

\* The statuses each engine treats as retryable when ShouldRetry is left nil:
\* the configured list in pkg/anytype, the fixed list of defaultShouldRetry in
\* middleware.
RetryableSet ==
  IF impl = "RT" THEN options.RetryableStatusCodes ELSE DefaultRetryableStatusCodes

OnlyRetryableStatuses(k) ==
  \A i \in 1 .. k :
    outcomes[i].err = NoErr /\ outcomes[i].resp.status \in RetryableSet

C2_TransportErrorRetried ==
  (impl = "RT" /\ pc = "done" /\ ~ctxDone /\ result.err = ConnErr)
    => attempt = options.MaxRetries

\* C3: in pkg/anytype a request with a non-empty body B lets the wrapped
\* transport read exactly B on every attempt, the first included.
C3_BodyOnEveryAttempt ==
  (impl = "RT" /\ body # NoBody) => \A i \in DOMAIN seen : seen[i] = body

\* C4: a first response with no error and a status outside the retryable set
\* is returned unchanged with a nil error after exactly one invocation and no
\* wait (both engines).
C4_TerminalStatusNoRetry ==
  (Len(outcomes) >= 1 /\ outcomes[1].err = NoErr
     /\ outcomes[1].resp.status \notin RetryableSet)
    => /\ pc = "done"
       /\ Len(outcomes) = 1
       /\ waits = <<>>
       /\ result = [resp |-> outcomes[1].resp, err |-> NoErr]

C4_Witness ==
  /\ impl = "RT" /\ pc = "done" /\ options.MaxRetries = 2
  /\ Len(outcomes) = 1 /\ outcomes[1].resp.status = StatusNotFound
  /\ StatusNotFound \notin options.RetryableStatusCodes
  /\ result.resp.status = StatusNotFound /\ result.err = NoErr /\ waits = <<>>

\* C5: in pkg/anytype, a context cancelled while the call is in the
\* inter-attempt wait makes the call return the cancellation error with a nil
\* response, and the transport is not invoked again.
C5_CancelDuringWait ==
  (impl = "RT" /\ cancelDuringWait)
    => /\ pc = "done"
       /\ result = [resp |-> NilResp, err |-> CtxErr]
       /\ Len(outcomes) = Len(waits)

C5_Witness ==
  /\ impl = "RT" /\ cancelDuringWait /\ pc = "done"
  /\ Len(outcomes) = 2 /\ Len(waits) = 2 /\ result.err = CtxErr

\* C6: in both engines no further attempt begins once the context is
\* cancelled, whatever the delay (zero included) and also when the
\* cancellation came before the wait started.
C6_NoAttemptAfterCancel == ~retriedAfterCancel

\* C8: in pkg/anytype, k retryable non-429 responses followed by a
\* non-retryable one give that last response after k+1 invocations; attempts
\* are sequential with exactly one wait between attempt i and attempt i+1,
\* and that wait is the backoff delay for index i (100ms then 200ms for
\* MinRetryDelay = 100ms, factor 2, jitter 0).
C8_NoRateLimit(k) ==
  \A i \in 1 .. k : outcomes[i].resp.status # StatusTooManyRequests

C8_SequentialBackoff ==
  impl = "RT" =>
    /\ Len(waits) <= Len(outcomes) /\ Len(outcomes) <= Len(waits) + 1
    /\ pc \in {"select", "parked"} => Len(waits) = Len(outcomes)
    /\ \A i \in DOMAIN waits :
         outcomes[i].resp.status # StatusTooManyRequests
           => /\ \E r \in RandBits : waits[i] = calculateBackoffDelay(options, i - 1, r)
              /\ (options.MinRetryDelay = 100 * Millisecond /\ options.FactorNum = 2
                    /\ options.FactorDen = 1 /\ options.RetryJitter = 0 /\ i <= 2)
                   => waits[i] = <<100 * Millisecond, 200 * Millisecond>>[i]
    /\ (pc = "done" /\ Len(outcomes) >= 1
          /\ outcomes[Len(outcomes)].err = NoErr
          /\ outcomes[Len(outcomes)].resp.status \notin options.RetryableStatusCodes
          /\ OnlyRetryableStatuses(Len(outcomes) - 1)
          /\ C8_NoRateLimit(Len(outcomes) - 1))
         => /\ result = [resp |-> outcomes[Len(outcomes)].resp, err |-> NoErr]
            /\ Len(waits) = Len(outcomes) - 1
            /\ Len(outcomes) <= options.MaxRetries + 1

C8_Witness ==
  /\ impl = "RT" /\ pc = "done" /\ options.MaxRetries = 2
  /\ options.MinRetryDelay = 100 * Millisecond
  /\ Len(outcomes) = 3
  /\ outcomes[1].resp.status = StatusServiceUnavailable
  /\ outcomes[2].resp.status = StatusServiceUnavailable
  /\ outcomes[3].resp.status = StatusOK
  /\ result.resp = outcomes[3].resp /\ result.err = NoErr
  /\ waits = <<100 * Millisecond, 200 * Millisecond>>

-----------------------------------------------------------------------------
(* Properties of calculateBackoffDelay *)

\* C7: for MaxRetryDelay >= MinRetryDelay >= 0, factor >= 1 and jitter >= 0,
\* calculateBackoffDelay returns min(MinRetryDelay x factor^a, MaxRetryDelay)
\* plus a jitter in [0, RetryJitter]; so the delay is never negative and never
\* above MaxRetryDelay + RetryJitter.
C7_BackoffFormula ==
  fout.done =>
    LET o    == fin.opts
        num  == Pow(o.FactorNum, fin.a)
        den  == Pow(o.FactorDen, fin.a)
        base == Min(o.MinRetryDelay * num, o.MaxRetryDelay * den)
        diff == fout.val * den - base
    IN  /\ diff >= 0 /\ diff % den = 0 /\ diff \div den <= o.RetryJitter
        /\ fout.val >= 0
        /\ fout.val <= o.MaxRetryDelay + o.RetryJitter

-----------------------------------------------------------------------------
(* Properties of the connectivity tracker *)

\* The connectivity after the first k completed calls and the callback the
\* k-th call is to fire, by the edge-triggered rule.
RECURSIVE EdgeConnected(_)
EdgeConnected(k) ==
  IF k = 0 THEN TRUE
  ELSE IF isNetworkError(callLog[k].err) THEN FALSE
       ELSE IF callLog[k].err = NoError THEN TRUE
            ELSE EdgeConnected(k - 1)

EdgeFired(k) ==
  IF isNetworkError(callLog[k].err) /\ EdgeConnected(k - 1) THEN "OnDisconnect"
  ELSE IF callLog[k].err = NoError /\ ~EdgeConnected(k - 1) THEN "OnReconnect"
       ELSE NoCallback

RECURSIVE FiredUpTo(_)
FiredUpTo(k) ==
  IF k = 0 THEN <<>>
  ELSE IF EdgeFired(k) = NoCallback THEN FiredUpTo(k - 1)
       ELSE Append(FiredUpTo(k - 1), EdgeFired(k))

\* C10: from a fresh DisconnectMiddleware and for calls made one after the
\* other, OnDisconnect fires exactly on a disconnect error arriving while
\* connected, OnReconnect exactly on an error-free result arriving while
\* disconnected, and nothing fires otherwise; [disconnect error, disconnect
\* error, success] fires OnDisconnect once, then OnReconnect once.
C10_EdgeTriggered ==
  (dcfg.OnDisconnect /\ dcfg.OnReconnect) =>
    /\ \A k \in DOMAIN callLog : callLog[k].fired = EdgeFired(k)
    /\ (\A p \in Callers : dpc[p] = "idle") =>
         /\ cbLog = FiredUpTo(Len(callLog))
         /\ connected = EdgeConnected(Len(callLog))
    /\ ((\A p \in Callers : dpc[p] = "idle") /\ Len(callLog) = 3
          /\ isNetworkError(callLog[1].err) /\ isNetworkError(callLog[2].err)
          /\ callLog[3].err = NoError)
         => cbLog = <<"OnDisconnect", "OnReconnect">>

C10_Witness ==
  /\ dcfg.OnDisconnect /\ dcfg.OnReconnect
  /\ Len(callLog) = 3
  /\ isNetworkError(callLog[1].err) /\ callLog[1].err.type = "*errors.errorString"
  /\ isNetworkError(callLog[2].err)
  /\ callLog[3].err = NoError
  /\ cbLog = <<"OnDisconnect", "OnReconnect">>
  /\ connected

\* C11: DisconnectMiddleware.Do returns exactly the (response, error) pair
\* that Next.Do returned, for every outcome and in every connectivity state,
\* and invokes Next.Do once per call: no retry, no suppression, no replacement.
C11_ForwardsUnchanged ==
  /\ \A k \in DOMAIN callLog :
       callLog[k].ret = [resp |-> callLog[k].resp, err |-> callLog[k].err]
  /\ nextCalls = Len(callLog)
                   + Cardinality({p \in Callers : dpc[p] \notin {"idle", "next"}})

C11_Witness ==
  /\ Len(callLog) = 3
  /\ isNetworkError(callLog[1].err)
  /\ callLog[1].ret = [resp |-> "response", err |-> callLog[1].err]
  /\ callLog[2].err = [type |-> "*errors.errorString", inner |-> "nil",
                       text |-> <<"unexpected", "EOF">>]
  /\ callLog[2].ret = [resp |-> "response", err |-> callLog[2].err]
  /\ callLog[3].ret = [resp |-> "response", err |-> NoError]
  /\ nextCalls = 3

\* C12: the lock of DisconnectMiddleware is held only for the read-modify-write
\* of connected; while OnDisconnect or OnReconnect runs the lock is not held.
C12_CallbackOutsideLock ==
  \A p \in Callers : dpc[p] = "callback" => mu.w = 0

-----------------------------------------------------------------------------
(* Properties of the composition *)

\* the order of observation for middlewares mws around a base: requests from
\* the first to the last, the base, results from the last to the first
ExpectedTrace(mws) ==
  LET n == Len(mws)
  IN [k \in 1 .. 2 * n + 1 |->
        IF k <= n THEN [unit |-> mws[k], sees |-> "request"]
        ELSE IF k = n + 1 THEN [unit |-> "base", sees |-> "request"]
        ELSE [unit |-> mws[2 * n + 2 - k], sees |-> "result"]]

\* C13: composing u0 .. u(n-1) around a base yields u0(u1(...(u(n-1)(base)))),
\* with Chain(...).Execute(base) and with NewChain(base).Use(...).Build(): the
\* first unit sees the request first and the result last, and zero units yield
\* the base itself.
C13_FirstIsOutermost ==
  /\ cpc \in {"built", "down", "up", "done", "panic"} => composed = cmws \o <<cbase>>
  /\ cpc = "done" => ctrace = ExpectedTrace(cmws)

C13_Witness ==
  /\ cimpl = "Chain"
  /\ cpc = "done"
  /\ cmws = <<"u2", "u1", "u3">>
  /\ ctrace[1] = [unit |-> "u2", sees |-> "request"]
  /\ ctrace[7] = [unit |-> "u2", sees |-> "result"]

\* C14: composing over a nil base transport is reported when the composition
\* is made: no composed transport comes out of it, and no request fails on it.
C14_NilBaseRejected ==
  cbase = "nil" => cpc \in {"config", "rejected"}

-----------------------------------------------------------------------------
(* Properties of the logging middleware *)

Returned == lpc \in {"done", "panic"}
PassedOn == lpc \in {"after", "done", "panic"}

\* C15: for every logging configuration the logging middleware returns
\* exactly the pair the wrapped transport returned, also when that pair holds
\* an error: the status, the headers, the error and the presence of a
\* response are the same.
C15_ReturnsTransportPair ==
  Returned =>
    /\ lpc = "done"
    /\ lret.err = lout.err
    /\ (lret.resp = NoLogResp) <=> (lout.resp = NoLogResp)
    /\ lret.resp.status = lout.resp.status
    /\ lret.resp.header = lout.resp.header

Values(q) == {q[i] : i \in DOMAIN q}

\* the values of the headers of h whose name is an entry of RedactedHeaders
RedactedValues(h) ==
  UNION {Values(h[k]) : k \in DOMAIN h \cap lopts.RedactedHeaders}

\* C17: for every request or response header whose name equals (case and all)
\* an entry of RedactedHeaders, no emission holds its value: "[REDACTED]" is
\* emitted instead, also when the header has several values; the request the
\* wrapped transport receives still carries the original values.
C17_RedactedNeverEmitted ==
  /\ \A i \in DOMAIN llog :
       /\ llog[i].value \notin RedactedValues(lorig.header)
       /\ llog[i].value \notin RedactedValues(lout.resp.header)
       /\ (llog[i].kind = "header" /\ llog[i].key \in lopts.RedactedHeaders)
            => (llog[i].value = "[REDACTED]" /\ llog[i].more = 0)
  /\ PassedOn => lseen.header = lorig.header

C17_Witness ==
  /\ lpc = "done"
  /\ lopts.RedactedHeaders = DefaultRedactedHeaders
  /\ "Authorization" \in DOMAIN lorig.header
  /\ lorig.header["Authorization"] = <<"s1", "s2">>
  /\ lseen.header["Authorization"] = <<"s1", "s2">>
  /\ "Token" \in DOMAIN lout.resp.header
  /\ \E i, j \in DOMAIN llog :
       /\ llog[i].kind = "header" /\ llog[i].key = "Authorization"
       /\ llog[i].value = "[REDACTED]"
       /\ llog[j].kind = "header" /\ llog[j].key = "Token"
       /\ llog[j].value = "[REDACTED]"

\* the i-th byte of a byte string
ByteAt(b, i) == IF i <= Len(b.pre) THEN b.pre[i] ELSE "x"

\* the emission e shows the logged body b as the claim says
ShownAsClaimed(e, b) ==
  IF BLen(b) > TruncateAt
  THEN /\ e.form = "truncated"
       /\ BLen(e.bytes) = TruncateAt
       /\ \A i \in 1 .. TruncateAt : ByteAt(e.bytes, i) = ByteAt(b, i)
       /\ e.total = BLen(b)
  ELSE /\ e.form \in {"text", "json"}
       /\ e.form = "text" => e.bytes = b
       /\ e.form = "json" => (e.bytes.fill = b.fill /\ Compact(e.bytes.pre) = Compact(b.pre))

\* C18: a logged body longer than 1000 bytes is emitted as its first 1000
\* bytes and its total length; a body of at most 1000 bytes is emitted in
\* full (a JSON body with its white space redone); the body handed on to the
\* wrapped transport or to the caller is the whole body in both cases.
C18_TruncatedAtThreshold ==
  \A i \in DOMAIN llog :
    llog[i].kind = "body" =>
      IF llog[i].key = "Request Body"
      THEN /\ ShownAsClaimed(llog[i], lorig.body.data)
           /\ PassedOn => lseen.body.bytes = lorig.body.data
      ELSE /\ ShownAsClaimed(llog[i], lout.resp.body.data)
           /\ lpc = "done" => ReadFrom(lret.resp.body).bytes = lout.resp.body.data

C18_Witness ==
  /\ lpc = "done"
  /\ BLen(lorig.body.data) = TruncateAt + 1
  /\ BLen(lout.resp.body.data) = TruncateAt
  /\ \E i, j \in DOMAIN llog :
       /\ llog[i].kind = "body" /\ llog[i].key = "Request Body"
       /\ llog[i].form = "truncated" /\ llog[i].total = TruncateAt + 1
       /\ BLen(llog[i].bytes) = TruncateAt
       /\ llog[j].kind = "body" /\ llog[j].key = "Response Body"
       /\ llog[j].form = "text" /\ llog[j].bytes = lout.resp.body.data
  /\ BLen(lseen.body.bytes) = TruncateAt + 1
  /\ BLen(ReadFrom(lret.resp.body).bytes) = TruncateAt

-----------------------------------------------------------------------------
(* Further properties of the retry engines *)

\* C19: in pkg/anytype NewRetryMiddleware the body of every abandoned
\* response (one followed by a wait, whether the wait ends in a retry or in
\* cancellation) is closed before the wait begins; the only response left
\* open is the one handed to the caller, and no returned response is closed.
C19_AbandonedBodiesClosed ==
  impl = "RT" =>
    /\ \A i \in DOMAIN waits : outcomes[i].resp.id \in respClosed
    /\ \A i \in DOMAIN outcomes :
         (outcomes[i].resp # NilResp /\ outcomes[i].resp.id \notin respClosed)
           => (pc = "done" /\ i = Len(outcomes) /\ result.resp = outcomes[i].resp)
    /\ (pc = "done" /\ result.resp # NilResp) => result.resp.id \notin respClosed

C19_Witness ==
  /\ impl = "RT" /\ pc = "done"
  /\ Len(outcomes) = 3 /\ Len(waits) = 2
  /\ respClosed = {1, 2}
  /\ result.resp.id = 3 /\ result.resp.status = StatusOK

\* C20: in middleware.RetryMiddleware with the default predicate, an
\* error-free response (retry budget not exhausted) is retried exactly when
\* its status is in the configured Config.RetryableStatusCodes.
C20_ConfiguredCodesDecide ==
  impl = "Do" =>
    \A i \in DOMAIN outcomes :
      (outcomes[i].err = NoErr /\ i <= options.MaxRetries)
        => (i \in DOMAIN waits <=> outcomes[i].resp.status \in options.RetryableStatusCodes)

\* C21: in middleware.RetryMiddleware.Do a context cancelled during the
\* inter-attempt wait makes the call return the cancellation error and no
\* response: the abandoned attempt's response does not come with the error.
C21_CancelReturnsNoResponse ==
  (impl = "Do" /\ cancelDuringWait)
    => /\ pc = "done"
       /\ result = [resp |-> NilResp, err |-> CtxErr]

\* C22: in middleware.RetryMiddleware.Do the body of every response that is
\* followed by another attempt is closed before that attempt begins.
C22_DoClosesAbandoned ==
  impl = "Do" =>
    \A i \in DOMAIN outcomes :
      (i < Len(outcomes) /\ outcomes[i].resp # NilResp)
        => outcomes[i].resp.id \in respClosed

-----------------------------------------------------------------------------
(* Properties of calculateRetryAfterDelay *)

\* the wait a Retry-After value asks for, when it parses to a non-negative one
HeaderWait(h, now) ==
  IF h # NoHeader /\ Atoi(h).ok /\ Atoi(h).val >= 0
  THEN [ok |-> TRUE, val |-> Atoi(h).val * Second]
  ELSE IF h # NoHeader /\ ~Atoi(h).ok /\ ParseTime(h).ok /\ ParseTime(h).t >= now
       THEN [ok |-> TRUE, val |-> (ParseTime(h).t - now) * Second]
       ELSE [ok |-> FALSE, val |-> 0]

\* C23: calculateRetryAfterDelay uses the Retry-After value only when it
\* parses (integer seconds or HTTP date) to a non-negative wait; for every
\* other value (absent, unparseable, negative integer, date in the past) it
\* returns the backoff delay of the attempt, so the result is never negative.
C23_RetryAfterNonNegative ==
  fout.done =>
    LET w == HeaderWait(fin.rsp.retryAfter, fin.now)
    IN /\ fout.val >= 0
       /\ w.ok => fout.val = w.val
       /\ ~w.ok => \E r \in RandBits : fout.val = calculateBackoffDelay(fin.opts, fin.a, r)

-----------------------------------------------------------------------------
(* Further properties of pkg/anytype NewRetryMiddleware *)

\* C28: for every MaxRetries, negative values included, a call through
\* pkg/anytype NewRetryMiddleware invokes the wrapped transport at least once
\* and never returns a nil response together with a nil error.
C28_AtLeastOneAttempt ==
  (impl = "RT" /\ pc = "done")
    => /\ Len(outcomes) >= 1
       /\ ~(result.resp = NilResp /\ result.err = NoErr)

\* C29: in pkg/anytype NewRetryMiddleware a Retry-After header counts only on
\* a 429: a retried response with another status that carries Retry-After is
\* followed by the backoff delay of its attempt index, not by the header's.
C29_RetryAfterOnly429 ==
  impl = "RT" =>
    \A i \in DOMAIN waits :
      (outcomes[i].resp.status # StatusTooManyRequests
         /\ outcomes[i].resp.retryAfter # NoHeader)
        => \E r \in RandBits : waits[i] = calculateBackoffDelay(options, i - 1, r)

C29_Witness ==
  /\ impl = "RT" /\ Len(waits) = 2
  /\ outcomes[2].resp.status = StatusServiceUnavailable
  /\ outcomes[2].resp.retryAfter = <<"2">>
  /\ options.MinRetryDelay = 100 * Millisecond
  /\ waits[2] = 200 * Millisecond

\* the retry budget: a negative MaxRetries allows no retry
Budget == IF options.MaxRetries > 0 THEN options.MaxRetries ELSE 0

\* C25: every logical call through either retry engine terminates: when each
\* invocation of the wrapped transport returns, the call reaches a terminal
\* state after at most MaxRetries + 1 invocations and at most MaxRetries
\* waits (a negative MaxRetries counting as none), each wait ending by the
\* delay elapsing or by cancellation.
C25_Terminates ==
  /\ [](/\ Len(outcomes) <= Budget + 1
        /\ Len(waits) <= Budget
        /\ pc = "parked" => ~ctxDone)
  /\ <>(pc = "done")

C25_Witness ==
  /\ impl = "RT" /\ pc = "done" /\ ~ctxDone
  /\ options.MaxRetries = 2
  /\ Len(outcomes) = 3 /\ Len(waits) = 2
  /\ result.resp = outcomes[3].resp

-----------------------------------------------------------------------------
(* Properties of middleware.exponentialBackoff *)

\* min(v x 2^k, mx) for 0 <= v <= mx, computed without leaving 0 .. mx
RECURSIVE CappedDoubling(_, _, _)
CappedDoubling(v, k, mx) ==
  IF k = 0 THEN v
  ELSE IF v > mx \div 2 THEN mx
       ELSE CappedDoubling(2 * v, k - 1, mx)

\* C30: for every retry index r >= 0 and 0 <= baseDelay <= maxDelay,
\* exponentialBackoff(baseDelay, r, maxDelay) is min(baseDelay x 2^r,
\* maxDelay) with no wrap-around of the 64-bit arithmetic: never negative,
\* never zero for baseDelay > 0, and never smaller than for r - 1.
C30_NoWrapAround ==
  fout.done =>
    /\ fout.val = ToWord(CappedDoubling(fin.baseDelay, fin.retry, fin.maxDelay))
    /\ ~IsNegative(fout.val)
    /\ fin.baseDelay > 0 => fout.val # ZeroWord
    /\ fin.retry > 0 =>
         ~Greater(exponentialBackoff64(fin.baseDelay, fin.retry - 1, fin.maxDelay),
                  fout.val)

-----------------------------------------------------------------------------
(* Properties of DisconnectMiddleware under overlapping calls *)

Count(name) == Cardinality({i \in DOMAIN cbLog : cbLog[i] = name})

FiringDifference == Count("OnDisconnect") - Count("OnReconnect")

\* C24: with both callbacks configured, under any interleaving of concurrent
\* calls through one DisconnectMiddleware the callback invocations alternate
\* OnDisconnect, OnReconnect, OnDisconnect, ... starting with OnDisconnect;
\* the number of OnDisconnect firings minus the number of OnReconnect firings
\* is 0 or 1 at every moment; and IsConnected() returns true exactly when
\* that difference is 0.
C24_CallbacksAlternate ==
  (dcfg.OnDisconnect /\ dcfg.OnReconnect) =>
    /\ \A i \in DOMAIN cbLog :
         cbLog[i] = IF i % 2 = 1 THEN "OnDisconnect" ELSE "OnReconnect"
    /\ FiringDifference \in {0, 1}
    /\ \A g \in Readers :
         isconn[g] # NotReading => (isconn[g] = "true" <=> FiringDifference = 0)

\* two calls saw the tracker disconnected; the first has fired OnReconnect,
\* the second is on its way into handleReconnect, and IsConnected reads true
C24_Witness ==
  /\ dcfg.OnDisconnect /\ dcfg.OnReconnect
  /\ cbLog = <<"OnDisconnect", "OnReconnect">>
  /\ \E p \in Callers : dpc[p] = "handleReconnect"
  /\ isconn[Observer] = "true"

\* C27: a callback that calls IsConnected() on the DisconnectMiddleware that
\* is running it always completes: no reachable state has the callback
\* waiting for a lock that its own goroutine holds.
C27_CallbackCompletes ==
  \A p \in Callers : dpc[p] = "cbIsConnected" => mu.w # p

\* caller p holds a result of Next.Do that is an error other than a
\* disconnect, or no error while the tracker is connected (and not connected
\* again by this very call)
QuietResult(p) ==
  /\ dpc[p] \in {"RLock", "handleReconnect", "callback", "return"}
  /\ \/ derr[p] # NoError /\ ~isNetworkError(derr[p])
     \/ derr[p] = NoError /\ connected /\ dfired[p] = NoCallback

\* C26: a DisconnectMiddleware call whose result is an error that is not a
\* disconnect leaves the connected flag unchanged and fires no callback, also
\* when it arrives while disconnected; an error-free result arriving while
\* connected changes nothing either.
C26_OtherResultsChangeNothing ==
  [][\A p \in Callers :
       QuietResult(p) =>
         /\ connected' = connected
         /\ cbLog' = cbLog
         /\ dpc'[p] = "idle" => callLog'[Len(callLog')].fired = NoCallback]_vars

\* after a disconnect, a call failed with an error that is not one and
\* returned: the tracker is still disconnected and nothing more has fired
C26_Witness ==
  /\ dcfg.OnDisconnect /\ dcfg.OnReconnect
  /\ Len(callLog) = 2
  /\ isNetworkError(callLog[1].err)
  /\ callLog[2].err # NoError /\ ~isNetworkError(callLog[2].err)
  /\ callLog[2].fired = NoCallback
  /\ ~connected
  /\ cbLog = <<"OnDisconnect">>

====
